---- MODULE Spec2Model ----
(***************************************************************************)
(* One run of the workflow route handler POST of                           *)
(* src/src/app/api/workflow/route.ts: request validation, frame            *)
(* normalisation, video encoding, the optional Google Drive upload, the    *)
(* three publishing targets, the response and the workspace clean-up.      *)
(*                                                                         *)
(* Every await of the handler is a step of the state machine.  An external *)
(* collaborator (form parser, file system, sharp, ffmpeg, fetch) answers   *)
(* nondeterministically with one of the outcomes it can produce, a thrown  *)
(* exception included.  Log lines are modelled without their timestamp     *)
(* prefix.  Request payloads are reduced to the value that links one call  *)
(* to an earlier one (file identifier, public link, creation identifier).  *)
(***************************************************************************)
EXTENDS Integers, Sequences, FiniteSets, TLC

VARIABLES
    form,              \* the submitted form fields (request.formData())
    pc,                \* position of the handler
    logs,              \* const logs: string[]
    tempRoot,          \* let tempRoot: string | null
    workspace,         \* TRUE while the temporary directory exists on disk
    imageEntries,      \* the filtered and sorted image entries
    framePaths,        \* frames written so far, each with the entry it came from
    frameRate,         \* const frameRate, in ten-thousandths of a frame per second
    frameDuration,     \* const frameDuration, in thousandths of a second
    videoBuffer,       \* the artifact read back from disk (Undefined before)
    uploadResponse,    \* uploadToGoogleDrive: the create call's response
    driveUpload,       \* let driveUpload: GoogleDriveUpload | undefined
    containerResponse, \* maybePostToInstagram: the container call's response
    facebookResult,
    instagramResult,
    tiktokResult,
    evaluated,         \* targets whose maybePostTo... function has returned
    calls,             \* external calls issued so far, in order
    thrown,            \* the exception on its way to the catch block
    pending,           \* the value of the return statement awaiting finally
    response           \* the response the caller receives

vars == <<form, pc, logs, tempRoot, workspace, imageEntries, framePaths,
          frameRate, frameDuration, videoBuffer, uploadResponse, driveUpload,
          containerResponse, facebookResult, instagramResult, tiktokResult, evaluated, calls,
          thrown, pending, response>>

----------------------------------------------------------------------------
(* Bounds of the model *)

\* Largest number of form entries that are not plain text fields.
MaxEntries == 2

\* The same, for the runs that vary the image fields and the frame duration.
MaxFrameEntries == 3

----------------------------------------------------------------------------
(* Optional values: undefined / null is the empty sequence *)

Undefined == <<>>
Some(v) == <<v>>
IsDefined(o) == o # Undefined
Get(o) == o[1]

----------------------------------------------------------------------------
(* Strings of the model *)

\* formData.get() of a field that was not submitted
Null == "<null>"

\* String.prototype.trim over the strings the model submits
Trim(s) ==
    CASE s \in {" ", "  "} -> ""
      [] s = " sunset "    -> "sunset"
      [] OTHER             -> s

StringValue(value) == IF value = Null \/ value = "" THEN "" ELSE Trim(value)

\* Collation rank of the field names the model submits (String.localeCompare)
KeyOrder == <<"cover", "image_000", "image_001", "image_002", "image_note">>

KeyRank(key) == CHOOSE i \in 1..Len(KeyOrder) : KeyOrder[i] = key

LocaleCompare(keyA, keyB) == KeyRank(keyA) - KeyRank(keyB)

StartsWithImage(key) == key \in {"image_000", "image_001", "image_002", "image_note"}

----------------------------------------------------------------------------
(* HTTP responses *)

BodyWithId == "{\"id\":\"id-1\"}"
BodyNoId == "{}"
BodyNotJson == "<html>"

\* Status codes the remote endpoints answer with in the model
Statuses == {200, 403}

\* Response.ok
Ok(r) == r.status >= 200 /\ r.status <= 299

ResponsesWith(texts) == [status : Statuses, text : texts]

\* Responses of an endpoint whose body the code inspects for an identifier
Responses == ResponsesWith({BodyWithId, BodyNoId, BodyNotJson})

\* Responses of an endpoint whose body is only passed on
OpaqueResponses == ResponsesWith({BodyNoId, BodyNotJson})

ParseFailure == [error |-> "Failed to parse response body"]

SafeJson(r) ==
    CASE r.text = BodyWithId -> [id |-> "id-1"]
      [] r.text = BodyNoId   -> [message |-> "none"]
      [] OTHER               -> ParseFailure

\* record?.id, "" standing for undefined
IdOf(body) == IF "id" \in DOMAIN body THEN body.id ELSE ""

----------------------------------------------------------------------------
(* Request *)

\* Form entries other than the plain text fields: a key, whether the value is
\* a File, and the bytes it carries.
EntryPool ==
    { [key |-> "image_001", isFile |-> TRUE,  data |-> "B"],
      [key |-> "image_000", isFile |-> TRUE,  data |-> "A"],
      [key |-> "image_note", isFile |-> FALSE, data |-> "text"],
      [key |-> "cover",     isFile |-> TRUE,  data |-> "C"] }

Range(s) == { s[i] : i \in DOMAIN s }

\* Lists of at most n distinct entries of a pool, in every arrival order
EntryListsOver(pool, n) ==
    UNION { { s \in [1..k -> pool] : Cardinality(Range(s)) = k } : k \in 0..n }

EntryLists(n) == EntryListsOver(EntryPool, n)

\* The pool with a third image, for the runs that vary the image fields
FramePool == EntryPool \cup { [key |-> "image_002", isFile |-> TRUE, data |-> "D"] }

\* Mutant: the filter forgets the instanceof File test
RECURSIVE FilterImages_AnyValue(_)
FilterImages_AnyValue(entries) ==
    IF entries = <<>> THEN <<>>
    ELSE LET e == Head(entries)
             rest == FilterImages_AnyValue(Tail(entries))
         IN IF StartsWithImage(e.key) THEN <<e>> \o rest ELSE rest

\* .filter(entry => entry[1] instanceof File && entry[0].startsWith("image_"))
RECURSIVE FilterImages(_)
FilterImages(entries) ==
    IF entries = <<>> THEN <<>>
    ELSE LET e == Head(entries)
             rest == FilterImages(Tail(entries))
         IN IF e.isFile /\ StartsWithImage(e.key) THEN <<e>> \o rest ELSE rest

\* Mutant: the entries keep their arrival order
SortEntries_KeepsArrivalOrder(entries) == entries

\* Insert e after every element that does not compare greater (stable)
RECURSIVE InsertSorted(_, _)
InsertSorted(e, sorted) ==
    IF sorted = <<>> THEN <<e>>
    ELSE IF LocaleCompare(Head(sorted).key, e.key) <= 0
         THEN <<Head(sorted)>> \o InsertSorted(e, Tail(sorted))
         ELSE <<e>> \o sorted

\* .sort(([keyA], [keyB]) => keyA.localeCompare(keyB)), a stable sort
RECURSIVE SortEntries(_)
SortEntries(entries) ==
    IF entries = <<>> THEN <<>>
    ELSE InsertSorted(entries[Len(entries)], SortEntries(SubSeq(entries, 1, Len(entries) - 1)))

Flags == {"true", "false"}
Tokens == {"", "token"}

Forms(prompts, entryLists, durations) ==
    [ prompt               : prompts,
      entries              : entryLists,
      frameDuration        : durations,
      googleDriveToken     : Tokens,
      facebookEnabled      : Flags,
      facebookAccessToken  : Tokens,
      facebookIdentifier   : Tokens,
      instagramEnabled     : Flags,
      instagramAccessToken : Tokens,
      instagramIdentifier  : Tokens,
      tiktokEnabled        : Flags,
      tiktokAccessToken    : Tokens ]

----------------------------------------------------------------------------
(* Responses of the handler *)

\* Mutant: the status option is left out, so the response has the default 200
ErrorResponse_DefaultStatus(status, message, lines) ==
    [status |-> 200, body |-> [error |-> message, logs |-> lines]]

\* NextResponse.json({ error, logs }, { status })
ErrorResponse(status, message, lines) ==
    [status |-> status, body |-> [error |-> message, logs |-> lines]]

\* NextResponse.json(responsePayload)
ReportResponse(lines, video, drive, fb, ig, tt) ==
    [status |-> 200,
     body |-> [logs |-> lines,
               videoBase64 |-> video,
               mimeType |-> "video/mp4",
               googleDriveFileId |-> IF IsDefined(drive) THEN Get(drive).fileId ELSE "",
               googleDriveWebLink |-> IF IsDefined(drive) THEN Get(drive).webLink ELSE "",
               facebook |-> fb,
               instagram |-> ig,
               tiktok |-> tt]]

----------------------------------------------------------------------------
(* Frame duration and frame rate *)

\* Number(text) over the texts the model submits, in thousandths; a value that
\* is not finite has finite = FALSE.
ToNumber(text) ==
    CASE text = "2"   -> [finite |-> TRUE, milli |-> 2000]
      [] text = "0"   -> [finite |-> TRUE, milli |-> 0]
      [] text = "-1"  -> [finite |-> TRUE, milli |-> -1000]
      [] text = "0.5" -> [finite |-> TRUE, milli |-> 500]
      [] text = "3"   -> [finite |-> TRUE, milli |-> 3000]
      [] text = "20"  -> [finite |-> TRUE, milli |-> 20000]
      [] text = "10"  -> [finite |-> TRUE, milli |-> 10000]
      [] text = "6.4" -> [finite |-> TRUE, milli |-> 6400]
      [] text = "0.6" -> [finite |-> TRUE, milli |-> 600]
      [] OTHER        -> [finite |-> FALSE, milli |-> 0]

\* Number(stringValue(formData.get("frameDuration")) || 2)
FrameDurationRaw(value) ==
    IF StringValue(value) = "" THEN [finite |-> TRUE, milli |-> 2000]
    ELSE ToNumber(StringValue(value))

\* Mutant: the test only excludes zero, so a negative duration is kept
FrameDuration_AcceptsNegative(value) ==
    LET raw == FrameDurationRaw(value)
    IN IF raw.finite /\ raw.milli # 0 THEN raw.milli ELSE 2000

\* Number.isFinite(frameDurationRaw) && frameDurationRaw > 0 ? frameDurationRaw : 2
FrameDuration(value) ==
    LET raw == FrameDurationRaw(value)
    IN IF raw.finite /\ raw.milli > 0 THEN raw.milli ELSE 2000

\* Number((1 / frameDuration).toFixed(4)), in ten-thousandths
ToFixed4Inverse(milli) == (2 * 10000000 + milli) \div (2 * milli)

\* Math.max(0.1, Number((1 / frameDuration).toFixed(4)))
FrameRate(milli) ==
    IF ToFixed4Inverse(milli) < 1000 THEN 1000 ELSE ToFixed4Inverse(milli)

\* `frame-${index.toString().padStart(3, "0")}.png`
FrameName(index) ==
    "frame-" \o (IF index < 10 THEN "00" ELSE IF index < 100 THEN "0" ELSE "")
             \o ToString(index) \o ".png"

----------------------------------------------------------------------------
(* Initial state: the handler has been entered, nothing has run yet *)

Prompts == {Null, "  ", " sunset "}

InitWith(forms) ==
    /\ form \in forms
    /\ pc = "start"
    /\ logs = <<>>
    /\ tempRoot = Null
    /\ workspace = FALSE
    /\ imageEntries = <<>>
    /\ framePaths = <<>>
    /\ frameRate = 0
    /\ frameDuration = 0
    /\ videoBuffer = Undefined
    /\ uploadResponse = Undefined
    /\ driveUpload = Undefined
    /\ containerResponse = Undefined
    /\ facebookResult = Undefined
    /\ instagramResult = Undefined
    /\ tiktokResult = Undefined
    /\ evaluated = {}
    /\ calls = <<>>
    /\ thrown = Undefined
    /\ pending = Undefined
    /\ response = Undefined

\* A request body that request.formData() cannot parse: it has no fields
MalformedBody == [malformed |-> TRUE]

\* The request carried a form
Submitted == "prompt" \in DOMAIN form

Init == InitWith(Forms(Prompts, EntryLists(MaxEntries), {"2"}) \cup {MalformedBody})

----------------------------------------------------------------------------
(* Control transfers *)

\* An exception leaves the try block for the catch block
Throw(message) ==
    /\ thrown' = Some(message)
    /\ pc' = "catch"
    /\ UNCHANGED pending

\* A return statement inside try or catch: finally runs before the caller
\* receives the value
Return(value) ==
    /\ pending' = Some(value)
    /\ pc' = "finally"
    /\ UNCHANGED thrown

Goto(label) ==
    /\ pc' = label
    /\ UNCHANGED <<thrown, pending>>

\* What a fetch() can do: reject (Undefined) or resolve with a response
FetchOutcomes(responses) == {Undefined} \cup { Some(r) : r \in responses }

\* An external call as it is issued: nothing has come back yet
Call(to, arg) == [to |-> to, arg |-> arg, outcome |-> "pending", status |-> 0, text |-> ""]

\* The calls once the one in flight has settled: rejected (Undefined) or
\* resolved with a response
Settled(outcome) ==
    [calls EXCEPT ![Len(calls)] =
        IF outcome = Undefined
        THEN [@ EXCEPT !.outcome = "rejected"]
        ELSE [@ EXCEPT !.outcome = "resolved",
                       !.status = Get(outcome).status,
                       !.text = Get(outcome).text]]

----------------------------------------------------------------------------
(* Validation, workspace, frames, encoding *)

ParseRequest ==
    /\ pc = "start"
    /\ frameDuration' = IF Submitted THEN FrameDuration(form.frameDuration) ELSE frameDuration
    /\ IF ~Submitted
       THEN /\ Throw("Failed to parse body as FormData.")
            /\ UNCHANGED <<logs, imageEntries>>
       ELSE LET prompt == StringValue(form.prompt)
                entries == SortEntries(FilterImages(form.entries))
            IN IF prompt = ""
               THEN /\ Return(ErrorResponse(400, "Prompt is required", logs))
                    /\ UNCHANGED <<logs, imageEntries>>
               ELSE IF Len(entries) = 0
               THEN /\ Return(ErrorResponse(400, "At least one image is required", logs))
                    /\ UNCHANGED <<logs, imageEntries>>
               ELSE /\ logs' = Append(logs, "Received " \o ToString(Len(entries))
                                             \o " image(s), preparing frame pipeline.")
                    /\ imageEntries' = entries
                    /\ Goto("mkdtemp")
    /\ UNCHANGED <<form, tempRoot, workspace, framePaths, frameRate, videoBuffer,
                   uploadResponse, driveUpload, containerResponse, facebookResult,
                   instagramResult, tiktokResult, evaluated, calls, response>>

CreateWorkspace ==
    /\ pc = "mkdtemp"
    /\ \E outcome \in {"created", "mkdtemp failed", "mkdir failed"} :
         CASE outcome = "created" ->
                /\ tempRoot' = "/tmp/workflow-XXXXXX"
                /\ workspace' = TRUE
                /\ Goto("frames")
           [] outcome = "mkdir failed" ->
                /\ tempRoot' = "/tmp/workflow-XXXXXX"
                /\ workspace' = TRUE
                /\ Throw("EACCES: mkdir failed")
           [] OTHER ->
                /\ UNCHANGED <<tempRoot, workspace>>
                /\ Throw("ENOSPC: mkdtemp failed")
    /\ UNCHANGED <<form, logs, imageEntries, framePaths, frameRate, frameDuration, videoBuffer,
                   uploadResponse, driveUpload, containerResponse, facebookResult,
                   instagramResult, tiktokResult, evaluated, calls, response>>

NormaliseFrame ==
    /\ pc = "frames"
    /\ Len(framePaths) < Len(imageEntries)
    /\ LET index == Len(framePaths)
           file == imageEntries[index + 1]
       IN \E decoded \in BOOLEAN :
            IF decoded
            THEN /\ framePaths' = Append(framePaths,
                                         [path |-> FrameName(index), data |-> file.data])
                 /\ Goto("frames")
            ELSE /\ UNCHANGED framePaths
                 /\ Throw("Input buffer contains unsupported image format")
    /\ UNCHANGED <<form, logs, tempRoot, workspace, imageEntries, frameRate, frameDuration,
                   videoBuffer, uploadResponse, driveUpload, containerResponse,
                   facebookResult, instagramResult, tiktokResult, evaluated, calls,
                   response>>

\* Mutant: the encoder is started as soon as one frame has been written
StartEncoder_Early ==
    /\ pc = "frames"
    /\ Len(framePaths) >= 1
    /\ logs' = logs \o <<"Frames normalised to PNG and stored in temporary workspace.",
                         "Invoking FFmpeg to stitch frames into a timeline.">>
    /\ frameRate' = FrameRate(frameDuration)
    /\ calls' = Append(calls, Call("ffmpeg", "frame-%03d.png"))
    /\ Goto("ffmpeg")
    /\ UNCHANGED <<form, tempRoot, workspace, imageEntries, framePaths, frameDuration, videoBuffer,
                   uploadResponse, driveUpload, containerResponse, facebookResult,
                   instagramResult, tiktokResult, evaluated, response>>

StartEncoder ==
    /\ pc = "frames"
    /\ Len(framePaths) = Len(imageEntries)
    /\ logs' = logs \o <<"Frames normalised to PNG and stored in temporary workspace.",
                         "Invoking FFmpeg to stitch frames into a timeline.">>
    /\ frameRate' = FrameRate(frameDuration)
    /\ calls' = Append(calls, Call("ffmpeg", "frame-%03d.png"))
    /\ Goto("ffmpeg")
    /\ UNCHANGED <<form, tempRoot, workspace, imageEntries, framePaths, frameDuration, videoBuffer,
                   uploadResponse, driveUpload, containerResponse, facebookResult,
                   instagramResult, tiktokResult, evaluated, response>>

EncoderEnd ==
    /\ pc = "ffmpeg"
    /\ logs' = Append(logs, "Video render complete.")
    /\ calls' = Settled(Some([status |-> 0, text |-> "end"]))
    /\ Goto("readFile")
    /\ UNCHANGED <<form, tempRoot, workspace, imageEntries, framePaths, frameRate, frameDuration,
                   videoBuffer, uploadResponse, driveUpload, containerResponse,
                   facebookResult, instagramResult, tiktokResult, evaluated,
                   response>>

\* Mutant: the encoder's error event resolves the promise instead of rejecting it
EncoderError_Resolves ==
    /\ pc = "ffmpeg"
    /\ calls' = Settled(Undefined)
    /\ Goto("readFile")
    /\ UNCHANGED <<form, logs, tempRoot, workspace, imageEntries, framePaths,
                   frameRate, frameDuration, videoBuffer, uploadResponse, driveUpload,
                   containerResponse, facebookResult, instagramResult, tiktokResult,
                   evaluated, response>>

EncoderError ==
    /\ pc = "ffmpeg"
    /\ Throw("ffmpeg exited with code 1")
    /\ calls' = Settled(Undefined)
    /\ UNCHANGED <<form, logs, tempRoot, workspace, imageEntries, framePaths,
                   frameRate, frameDuration, videoBuffer, uploadResponse, driveUpload,
                   containerResponse, facebookResult, instagramResult, tiktokResult,
                   evaluated, response>>

ReadVideo ==
    /\ pc = "readFile"
    /\ \E read \in BOOLEAN :
         IF read
         THEN /\ videoBuffer' = Some([frames |-> [i \in DOMAIN framePaths |-> framePaths[i].data],
                                      frameRate |-> frameRate])
              /\ Goto("drive")
         ELSE /\ UNCHANGED videoBuffer
              /\ Throw("ENOENT: no such file or directory")
    /\ UNCHANGED <<form, logs, tempRoot, workspace, imageEntries, framePaths,
                   frameRate, frameDuration, uploadResponse, driveUpload, containerResponse,
                   facebookResult, instagramResult, tiktokResult, evaluated, calls,
                   response>>

----------------------------------------------------------------------------
(* Storage stage: uploadToGoogleDrive *)

WebLink(fileId) == "https://drive.google.com/uc?export=download&id=" \o fileId

\* uploadRecord?.id ? String(uploadRecord.id) : undefined
FileId(upload) == IdOf(SafeJson(upload))

\* Mutant: a refused create still yields a public link
UploadRejected_KeepsLink(upload) ==
    [success |-> FALSE, statusCode |-> upload.status, body |-> SafeJson(upload),
     fileId |-> "", webLink |-> WebLink("")]

\* if (!uploadResponse.ok) return { success: false, ... }
UploadRejected(upload) ==
    [success |-> FALSE, statusCode |-> upload.status, body |-> SafeJson(upload),
     fileId |-> "", webLink |-> ""]

\* Mutant: a create response without identifier still yields a public link
UploadMissingId_KeepsLink(upload) ==
    [success |-> FALSE, statusCode |-> upload.status,
     body |-> [upload |-> SafeJson(upload),
               error |-> "Upload response missing file identifier."],
     fileId |-> "", webLink |-> WebLink("")]

\* if (!fileId) return { success: false, ... }
UploadMissingId(upload) ==
    [success |-> FALSE, statusCode |-> upload.status,
     body |-> [upload |-> SafeJson(upload),
               error |-> "Upload response missing file identifier."],
     fileId |-> "", webLink |-> ""]

\* Mutant: success is taken from the create call instead of the permission call
UploadCompleted_IgnoresPermission(upload, permission) ==
    [success |-> Ok(upload), statusCode |-> upload.status,
     body |-> [upload |-> SafeJson(upload), permission |-> SafeJson(permission)],
     fileId |-> FileId(upload), webLink |-> WebLink(FileId(upload))]

\* the return after the permission call
UploadCompleted(upload, permission) ==
    [success |-> Ok(permission), statusCode |-> upload.status,
     body |-> [upload |-> SafeJson(upload), permission |-> SafeJson(permission)],
     fileId |-> FileId(upload), webLink |-> WebLink(FileId(upload))]

\* The handler's log line about the result of the upload
DriveLogLine(result) ==
    IF result.success
    THEN "Google Drive upload succeeded (fileId: " \o result.fileId \o ")."
    ELSE "Google Drive upload failed."

DriveStart ==
    /\ pc = "drive"
    /\ IF StringValue(form.googleDriveToken) # ""
       THEN /\ logs' = Append(logs, "Uploading rendered video to Google Drive.")
            /\ calls' = Append(calls, Call("drive.create", "video"))
            /\ Goto("driveCreate")
       ELSE /\ logs' = Append(logs, "Google Drive step skipped (no token provided).")
            /\ UNCHANGED calls
            /\ Goto("facebook")
    /\ UNCHANGED <<form, tempRoot, workspace, imageEntries, framePaths, frameRate, frameDuration,
                   videoBuffer, uploadResponse, driveUpload, containerResponse,
                   facebookResult, instagramResult, tiktokResult, evaluated, response>>

DriveCreateResponse ==
    /\ pc = "driveCreate"
    /\ \E outcome \in FetchOutcomes(Responses) :
         IF outcome = Undefined
         THEN /\ Throw("fetch failed")
              /\ calls' = Settled(outcome)
              /\ UNCHANGED <<logs, uploadResponse, driveUpload>>
         ELSE LET upload == Get(outcome)
              IN IF ~Ok(upload)
                 THEN /\ driveUpload' = Some(UploadRejected(upload))
                      /\ logs' = Append(logs, DriveLogLine(UploadRejected(upload)))
                      /\ calls' = Settled(outcome)
                      /\ UNCHANGED uploadResponse
                      /\ Goto("facebook")
                 ELSE IF FileId(upload) = ""
                 THEN /\ driveUpload' = Some(UploadMissingId(upload))
                      /\ logs' = Append(logs, DriveLogLine(UploadMissingId(upload)))
                      /\ calls' = Settled(outcome)
                      /\ UNCHANGED uploadResponse
                      /\ Goto("facebook")
                 ELSE /\ uploadResponse' = Some(upload)
                      /\ calls' = Append(Settled(outcome), Call("drive.permissions", FileId(upload)))
                      /\ UNCHANGED <<logs, driveUpload>>
                      /\ Goto("drivePermission")
    /\ UNCHANGED <<form, tempRoot, workspace, imageEntries, framePaths, frameRate, frameDuration,
                   videoBuffer, containerResponse, facebookResult, instagramResult,
                   tiktokResult, evaluated, response>>

DrivePermissionResponse ==
    /\ pc = "drivePermission"
    /\ \E outcome \in FetchOutcomes(OpaqueResponses) :
         IF outcome = Undefined
         THEN /\ Throw("fetch failed")
              /\ calls' = Settled(outcome)
              /\ UNCHANGED <<logs, driveUpload>>
         ELSE LET result == UploadCompleted(Get(uploadResponse), Get(outcome))
              IN /\ driveUpload' = Some(result)
                 /\ logs' = Append(logs, DriveLogLine(result))
                 /\ calls' = Settled(outcome)
                 /\ Goto("facebook")
    /\ UNCHANGED <<form, tempRoot, workspace, imageEntries, framePaths, frameRate, frameDuration,
                   videoBuffer, uploadResponse, containerResponse, facebookResult,
                   instagramResult, tiktokResult, evaluated, response>>

----------------------------------------------------------------------------
(* Publishing targets *)

\* A result produced without a network call
LocalRejection(error) ==
    [success |-> FALSE, statusCode |-> 400, body |-> [error |-> error], message |-> ""]

\* Mutant: a body that carries an error field makes the result a failure
RemoteResult_JudgesBody(r, body) ==
    [success |-> Ok(r) /\ "error" \notin DOMAIN body, statusCode |-> r.status,
     body |-> body, message |-> ""]

\* A result taken from the response of a call
RemoteResult(r, body) ==
    [success |-> Ok(r), statusCode |-> r.status, body |-> body, message |-> ""]

\* !driveUpload?.webLink is false
HasWebLink(drive) == IsDefined(drive) /\ Get(drive).webLink # ""

\* Mutant: the configuration test rejects only when both values are missing
FacebookGate_RequiresEither(f) ==
    IF StringValue(f.facebookEnabled) # "true" THEN "skip"
    ELSE IF StringValue(f.facebookAccessToken) = "" /\ StringValue(f.facebookIdentifier) = ""
         THEN "reject"
    ELSE "proceed"

\* maybePostToFacebook up to its fetch: "skip", "reject" or "proceed"
FacebookGate(f) ==
    IF StringValue(f.facebookEnabled) # "true" THEN "skip"
    ELSE IF StringValue(f.facebookAccessToken) = "" \/ StringValue(f.facebookIdentifier) = ""
         THEN "reject"
    ELSE "proceed"

\* Mutant: an enabled target without a public link is skipped silently
InstagramGate_SkipsWithoutLink(f, drive) ==
    IF StringValue(f.instagramEnabled) # "true" THEN "skip"
    ELSE IF ~HasWebLink(drive) THEN "skip"
    ELSE IF StringValue(f.instagramAccessToken) = "" \/ StringValue(f.instagramIdentifier) = ""
         THEN "reject"
    ELSE "proceed"

\* maybePostToInstagram up to its first fetch
InstagramGate(f, drive) ==
    IF StringValue(f.instagramEnabled) # "true" THEN "skip"
    ELSE IF ~HasWebLink(drive) THEN "no link"
    ELSE IF StringValue(f.instagramAccessToken) = "" \/ StringValue(f.instagramIdentifier) = ""
         THEN "reject"
    ELSE "proceed"

\* maybePostToTikTok up to its fetch
TikTokGate(f, drive) ==
    IF StringValue(f.tiktokEnabled) # "true" THEN "skip"
    ELSE IF ~HasWebLink(drive) THEN "no link"
    ELSE IF StringValue(f.tiktokAccessToken) = "" THEN "reject"
    ELSE "proceed"

MissingUrl == LocalRejection("Missing public video URL")

FacebookStart ==
    /\ pc = "facebook"
    /\ LET gate == FacebookGate(form)
       IN CASE gate = "skip" ->
                 /\ logs' = Append(logs, "Facebook publishing skipped.")
                 /\ facebookResult' = Undefined
                 /\ evaluated' = evaluated \cup {"facebook"}
                 /\ UNCHANGED calls
                 /\ Goto("instagram")
            [] gate = "reject" ->
                 /\ logs' = Append(logs,
                        "Facebook configuration incomplete (token and page ID required).")
                 /\ facebookResult' = Some(LocalRejection("Missing page access token or page ID"))
                 /\ evaluated' = evaluated \cup {"facebook"}
                 /\ UNCHANGED calls
                 /\ Goto("instagram")
            [] OTHER ->
                 /\ logs' = Append(logs, "Posting video to Facebook Page.")
                 /\ calls' = Append(calls, Call("facebook.videos", "video"))
                 /\ UNCHANGED <<facebookResult, evaluated>>
                 /\ Goto("facebookPost")
    /\ UNCHANGED <<form, tempRoot, workspace, imageEntries, framePaths, frameRate, frameDuration,
                   videoBuffer, uploadResponse, driveUpload, containerResponse,
                   instagramResult, tiktokResult, response>>

FacebookResponse ==
    /\ pc = "facebookPost"
    /\ \E outcome \in FetchOutcomes(OpaqueResponses) :
         IF outcome = Undefined
         THEN /\ Throw("fetch failed")
              /\ calls' = Settled(outcome)
              /\ UNCHANGED <<logs, facebookResult, evaluated>>
         ELSE LET r == Get(outcome)
              IN /\ calls' = Settled(outcome)
                 /\ logs' = Append(logs, IF Ok(r) THEN "Facebook publishing succeeded."
                                                  ELSE "Facebook publishing failed.")
                 /\ facebookResult' = Some(RemoteResult(r, SafeJson(r)))
                 /\ evaluated' = evaluated \cup {"facebook"}
                 /\ Goto("instagram")
    /\ UNCHANGED <<form, tempRoot, workspace, imageEntries, framePaths, frameRate, frameDuration,
                   videoBuffer, uploadResponse, driveUpload, containerResponse,
                   instagramResult, tiktokResult, response>>

\* Mutant: a disabled Instagram ends the distribution, TikTok is not evaluated
InstagramStart_EndsRun ==
    /\ pc = "instagram"
    /\ LET gate == InstagramGate(form, driveUpload)
       IN CASE gate = "skip" ->
                 /\ logs' = Append(logs, "Instagram publishing skipped.")
                 /\ instagramResult' = Undefined
                 /\ evaluated' = evaluated \cup {"instagram"}
                 /\ UNCHANGED calls
                 /\ Goto("complete")
            [] gate = "no link" ->
                 /\ logs' = Append(logs,
                        "Instagram requires a public video URL. Google Drive upload must succeed first.")
                 /\ instagramResult' = Some(MissingUrl)
                 /\ evaluated' = evaluated \cup {"instagram"}
                 /\ UNCHANGED calls
                 /\ Goto("tiktok")
            [] gate = "reject" ->
                 /\ logs' = Append(logs,
                        "Instagram configuration incomplete (access token and IG user ID required).")
                 /\ instagramResult' =
                        Some(LocalRejection("Missing access token or Instagram user ID"))
                 /\ evaluated' = evaluated \cup {"instagram"}
                 /\ UNCHANGED calls
                 /\ Goto("tiktok")
            [] OTHER ->
                 /\ logs' = Append(logs, "Creating Instagram media container.")
                 /\ calls' = Append(calls, Call("instagram.media", Get(driveUpload).webLink))
                 /\ UNCHANGED <<instagramResult, evaluated>>
                 /\ Goto("instagramContainer")
    /\ UNCHANGED <<form, tempRoot, workspace, imageEntries, framePaths, frameRate, frameDuration,
                   videoBuffer, uploadResponse, driveUpload, containerResponse,
                   facebookResult, tiktokResult, response>>

InstagramStart ==
    /\ pc = "instagram"
    /\ LET gate == InstagramGate(form, driveUpload)
       IN CASE gate = "skip" ->
                 /\ logs' = Append(logs, "Instagram publishing skipped.")
                 /\ instagramResult' = Undefined
                 /\ evaluated' = evaluated \cup {"instagram"}
                 /\ UNCHANGED calls
                 /\ Goto("tiktok")
            [] gate = "no link" ->
                 /\ logs' = Append(logs,
                        "Instagram requires a public video URL. Google Drive upload must succeed first.")
                 /\ instagramResult' = Some(MissingUrl)
                 /\ evaluated' = evaluated \cup {"instagram"}
                 /\ UNCHANGED calls
                 /\ Goto("tiktok")
            [] gate = "reject" ->
                 /\ logs' = Append(logs,
                        "Instagram configuration incomplete (access token and IG user ID required).")
                 /\ instagramResult' =
                        Some(LocalRejection("Missing access token or Instagram user ID"))
                 /\ evaluated' = evaluated \cup {"instagram"}
                 /\ UNCHANGED calls
                 /\ Goto("tiktok")
            [] OTHER ->
                 /\ logs' = Append(logs, "Creating Instagram media container.")
                 /\ calls' = Append(calls, Call("instagram.media", Get(driveUpload).webLink))
                 /\ UNCHANGED <<instagramResult, evaluated>>
                 /\ Goto("instagramContainer")
    /\ UNCHANGED <<form, tempRoot, workspace, imageEntries, framePaths, frameRate, frameDuration,
                   videoBuffer, uploadResponse, driveUpload, containerResponse,
                   facebookResult, tiktokResult, response>>

\* Mutant: the missing identifier is reported with the container's ok-status
ContainerMissingId_Succeeds(container) ==
    [success |-> Ok(container), statusCode |-> container.status,
     body |-> SafeJson(container), message |-> "Missing Instagram creation ID."]

\* The result when the container response carries no creation identifier
ContainerMissingId(container) ==
    [success |-> FALSE, statusCode |-> container.status, body |-> SafeJson(container),
     message |-> "Missing Instagram creation ID."]

InstagramContainerResponse ==
    /\ pc = "instagramContainer"
    /\ \E outcome \in FetchOutcomes(Responses) :
         IF outcome = Undefined
         THEN /\ Throw("fetch failed")
              /\ calls' = Settled(outcome)
              /\ UNCHANGED <<logs, containerResponse, instagramResult, evaluated>>
         ELSE LET container == Get(outcome)
              IN IF ~Ok(container)
                 THEN /\ logs' = Append(logs, "Instagram container creation failed.")
                      /\ instagramResult' = Some(RemoteResult(container, SafeJson(container)))
                      /\ evaluated' = evaluated \cup {"instagram"}
                      /\ calls' = Settled(outcome)
                      /\ UNCHANGED containerResponse
                      /\ Goto("tiktok")
                 ELSE IF IdOf(SafeJson(container)) = ""
                 THEN /\ logs' = Append(logs, "Instagram container response missing creation ID.")
                      /\ instagramResult' = Some(ContainerMissingId(container))
                      /\ evaluated' = evaluated \cup {"instagram"}
                      /\ calls' = Settled(outcome)
                      /\ UNCHANGED containerResponse
                      /\ Goto("tiktok")
                 ELSE /\ logs' = Append(logs, "Publishing Instagram media container.")
                      /\ containerResponse' = Some(container)
                      /\ calls' = Append(Settled(outcome), Call("instagram.media_publish",
                                                     IdOf(SafeJson(container))))
                      /\ UNCHANGED <<instagramResult, evaluated>>
                      /\ Goto("instagramPublish")
    /\ UNCHANGED <<form, tempRoot, workspace, imageEntries, framePaths, frameRate, frameDuration,
                   videoBuffer, uploadResponse, driveUpload, facebookResult,
                   tiktokResult, response>>

InstagramPublishResponse ==
    /\ pc = "instagramPublish"
    /\ \E outcome \in FetchOutcomes(OpaqueResponses) :
         IF outcome = Undefined
         THEN /\ Throw("fetch failed")
              /\ calls' = Settled(outcome)
              /\ UNCHANGED <<logs, instagramResult, evaluated>>
         ELSE LET publish == Get(outcome)
              IN /\ calls' = Settled(outcome)
                 /\ logs' = Append(logs, IF Ok(publish) THEN "Instagram publishing succeeded."
                                                        ELSE "Instagram publishing failed.")
                 /\ instagramResult' =
                        Some(RemoteResult(publish,
                                          [container |-> SafeJson(Get(containerResponse)),
                                           publish |-> SafeJson(publish)]))
                 /\ evaluated' = evaluated \cup {"instagram"}
                 /\ Goto("tiktok")
    /\ UNCHANGED <<form, tempRoot, workspace, imageEntries, framePaths, frameRate, frameDuration,
                   videoBuffer, uploadResponse, driveUpload, containerResponse,
                   facebookResult, tiktokResult, response>>

TikTokStart ==
    /\ pc = "tiktok"
    /\ LET gate == TikTokGate(form, driveUpload)
       IN CASE gate = "skip" ->
                 /\ logs' = Append(logs, "TikTok publishing skipped.")
                 /\ tiktokResult' = Undefined
                 /\ evaluated' = evaluated \cup {"tiktok"}
                 /\ UNCHANGED calls
                 /\ Goto("complete")
            [] gate = "no link" ->
                 /\ logs' = Append(logs,
                        "TikTok requires a public video URL. Google Drive upload must succeed first.")
                 /\ tiktokResult' = Some(MissingUrl)
                 /\ evaluated' = evaluated \cup {"tiktok"}
                 /\ UNCHANGED calls
                 /\ Goto("complete")
            [] gate = "reject" ->
                 /\ logs' = Append(logs, "TikTok configuration incomplete (access token required).")
                 /\ tiktokResult' = Some(LocalRejection("Missing TikTok access token"))
                 /\ evaluated' = evaluated \cup {"tiktok"}
                 /\ UNCHANGED calls
                 /\ Goto("complete")
            [] OTHER ->
                 /\ logs' = Append(logs, "Calling TikTok upload API.")
                 /\ calls' = Append(calls, Call("tiktok.upload", Get(driveUpload).webLink))
                 /\ UNCHANGED <<tiktokResult, evaluated>>
                 /\ Goto("tiktokUpload")
    /\ UNCHANGED <<form, tempRoot, workspace, imageEntries, framePaths, frameRate, frameDuration,
                   videoBuffer, uploadResponse, driveUpload, containerResponse,
                   facebookResult, instagramResult, response>>

\* Mutant: a refused upload is issued a second time
TikTokResponse_Retries ==
    /\ pc = "tiktokUpload"
    /\ \E outcome \in FetchOutcomes(OpaqueResponses) :
         IF outcome = Undefined
         THEN /\ Throw("fetch failed")
              /\ calls' = Settled(outcome)
              /\ UNCHANGED <<logs, tiktokResult, evaluated>>
         ELSE LET r == Get(outcome)
                  first == \A i \in 1..(Len(calls) - 1) : calls[i].to # "tiktok.upload"
              IN IF ~Ok(r) /\ first
                 THEN /\ calls' = Append(Settled(outcome),
                                         Call("tiktok.upload", Get(driveUpload).webLink))
                      /\ UNCHANGED <<logs, tiktokResult, evaluated, pc, thrown, pending>>
                 ELSE /\ calls' = Settled(outcome)
                      /\ logs' = Append(logs, IF Ok(r) THEN "TikTok upload request accepted."
                                                       ELSE "TikTok upload failed.")
                      /\ tiktokResult' = Some(RemoteResult(r, SafeJson(r)))
                      /\ evaluated' = evaluated \cup {"tiktok"}
                      /\ Goto("complete")
    /\ UNCHANGED <<form, tempRoot, workspace, imageEntries, framePaths, frameRate, frameDuration,
                   videoBuffer, uploadResponse, driveUpload, containerResponse,
                   facebookResult, instagramResult, response>>

TikTokResponse ==
    /\ pc = "tiktokUpload"
    /\ \E outcome \in FetchOutcomes(OpaqueResponses) :
         IF outcome = Undefined
         THEN /\ Throw("fetch failed")
              /\ calls' = Settled(outcome)
              /\ UNCHANGED <<logs, tiktokResult, evaluated>>
         ELSE LET r == Get(outcome)
              IN /\ calls' = Settled(outcome)
                 /\ logs' = Append(logs, IF Ok(r) THEN "TikTok upload request accepted."
                                                  ELSE "TikTok upload failed.")
                 /\ tiktokResult' = Some(RemoteResult(r, SafeJson(r)))
                 /\ evaluated' = evaluated \cup {"tiktok"}
                 /\ Goto("complete")
    /\ UNCHANGED <<form, tempRoot, workspace, imageEntries, framePaths, frameRate, frameDuration,
                   videoBuffer, uploadResponse, driveUpload, containerResponse,
                   facebookResult, instagramResult, response>>

----------------------------------------------------------------------------
(* Report, catch, finally *)

Complete ==
    /\ pc = "complete"
    /\ logs' = Append(logs, "Workflow completed.")
    /\ Return(ReportResponse(logs', Get(videoBuffer), driveUpload, facebookResult,
                             instagramResult, tiktokResult))
    /\ UNCHANGED <<form, tempRoot, workspace, imageEntries, framePaths, frameRate, frameDuration,
                   videoBuffer, uploadResponse, driveUpload, containerResponse,
                   facebookResult, instagramResult, tiktokResult, evaluated, calls,
                   response>>

\* Mutant: the catch block reports the error line alone
Catch_ReplacesLog ==
    /\ pc = "catch"
    /\ logs' = <<"Error: " \o Get(thrown)>>
    /\ pending' = Some(ErrorResponse(500, Get(thrown), logs'))
    /\ thrown' = Undefined
    /\ pc' = "finally"
    /\ UNCHANGED <<form, tempRoot, workspace, imageEntries, framePaths, frameRate, frameDuration,
                   videoBuffer, uploadResponse, driveUpload, containerResponse,
                   facebookResult, instagramResult, tiktokResult, evaluated, calls,
                   response>>

Catch ==
    /\ pc = "catch"
    /\ logs' = Append(logs, "Error: " \o Get(thrown))
    /\ pending' = Some(ErrorResponse(500, Get(thrown), logs'))
    /\ thrown' = Undefined
    /\ pc' = "finally"
    /\ UNCHANGED <<form, tempRoot, workspace, imageEntries, framePaths, frameRate, frameDuration,
                   videoBuffer, uploadResponse, driveUpload, containerResponse,
                   facebookResult, instagramResult, tiktokResult, evaluated, calls,
                   response>>

\* finally: fs.rm of the workspace, whose failure is swallowed; then the
\* pending return value reaches the caller
\* Mutant: the finally block returns without removing the workspace
Finally_KeepsWorkspace ==
    /\ pc = "finally"
    /\ response' = pending
    /\ pc' = "done"
    /\ UNCHANGED <<form, logs, tempRoot, workspace, imageEntries, framePaths, frameRate,
                   frameDuration, videoBuffer, uploadResponse, driveUpload,
                   containerResponse, facebookResult, instagramResult, tiktokResult,
                   evaluated, calls, thrown, pending>>

Finally ==
    /\ pc = "finally"
    /\ IF tempRoot # Null
       THEN \E removed \in BOOLEAN :
              /\ workspace' = (workspace /\ ~removed)
              /\ calls' = Append(calls, [Call("fs.rm", tempRoot) EXCEPT
                                           !.outcome = IF removed THEN "resolved"
                                                                  ELSE "rejected"])
       ELSE UNCHANGED <<workspace, calls>>
    /\ response' = pending
    /\ pc' = "done"
    /\ UNCHANGED <<form, logs, tempRoot, imageEntries, framePaths, frameRate,
                   frameDuration, videoBuffer, uploadResponse, driveUpload,
                   containerResponse, facebookResult, instagramResult, tiktokResult,
                   evaluated, thrown, pending>>

----------------------------------------------------------------------------

Next ==
    \/ ParseRequest
    \/ CreateWorkspace
    \/ NormaliseFrame
    \/ StartEncoder
    \/ EncoderEnd
    \/ EncoderError
    \/ ReadVideo
    \/ DriveStart
    \/ DriveCreateResponse
    \/ DrivePermissionResponse
    \/ FacebookStart
    \/ FacebookResponse
    \/ InstagramStart
    \/ InstagramContainerResponse
    \/ InstagramPublishResponse
    \/ TikTokStart
    \/ TikTokResponse
    \/ Complete
    \/ Catch
    \/ Finally

Spec == Init /\ [][Next]_vars

----------------------------------------------------------------------------
(* Runs that vary the image fields and the frame duration *)

\* Texts submitted as frameDuration; Null is a missing field
DurationTexts ==
    {Null, "", "0", "-1", "abc", "Infinity", "2", "0.5", "0.6", "3", "6.4", "10", "20"}

\* A request that publishes nowhere
QuietForm ==
    [ prompt               |-> " sunset ",
      entries              |-> <<>>,
      frameDuration        |-> "2",
      googleDriveToken     |-> "",
      facebookEnabled      |-> "false",
      facebookAccessToken  |-> "",
      facebookIdentifier   |-> "",
      instagramEnabled     |-> "false",
      instagramAccessToken |-> "",
      instagramIdentifier  |-> "",
      tiktokEnabled        |-> "false",
      tiktokAccessToken    |-> "" ]

\* A request that uploads to the storage and publishes to every target
LoudForm ==
    [ prompt               |-> "sunset",
      entries              |-> <<[key |-> "image_000", isFile |-> TRUE, data |-> "A"]>>,
      frameDuration        |-> "2",
      googleDriveToken     |-> "token",
      facebookEnabled      |-> "true",
      facebookAccessToken  |-> "token",
      facebookIdentifier   |-> "token",
      instagramEnabled     |-> "true",
      instagramAccessToken |-> "token",
      instagramIdentifier  |-> "token",
      tiktokEnabled        |-> "true",
      tiktokAccessToken    |-> "token" ]

InputForms ==
    { [QuietForm EXCEPT !.entries = e, !.frameDuration = d] :
          e \in EntryListsOver(FramePool, MaxFrameEntries), d \in DurationTexts }
    \cup {LoudForm}

InitInputs == InitWith(InputForms)

SpecInputs == InitInputs /\ [][Next]_vars

\* The steps that the handler takes by itself once the promise it awaits has
\* settled; the encoder's two events are the encoder's to emit.
HandlerStep ==
    \/ ParseRequest
    \/ CreateWorkspace
    \/ NormaliseFrame
    \/ StartEncoder
    \/ ReadVideo
    \/ DriveStart
    \/ DriveCreateResponse
    \/ DrivePermissionResponse
    \/ FacebookStart
    \/ FacebookResponse
    \/ InstagramStart
    \/ InstagramContainerResponse
    \/ InstagramPublishResponse
    \/ TikTokStart
    \/ TikTokResponse
    \/ Complete
    \/ Catch
    \/ Finally

\* The runs in which every awaited file-system and network promise settles
FairSpec == InitInputs /\ [][Next]_vars /\ WF_vars(HandlerStep)

----------------------------------------------------------------------------
(* Vocabulary of the properties *)

Targets == {"facebook", "instagram", "tiktok"}

\* The targets that publish the public link instead of the video bytes
LinkTargets == {"instagram", "tiktok"}

Enabled(t) ==
    /\ Submitted
    /\ CASE t = "facebook"  -> form.facebookEnabled = "true"
         [] t = "instagram" -> form.instagramEnabled = "true"
         [] t = "tiktok"    -> form.tiktokEnabled = "true"

\* The target's required token or identifier was left empty
LacksConfiguration(t) ==
    CASE t = "facebook"  -> form.facebookAccessToken = "" \/ form.facebookIdentifier = ""
      [] t = "instagram" -> form.instagramAccessToken = "" \/ form.instagramIdentifier = ""
      [] t = "tiktok"    -> form.tiktokAccessToken = ""

ResultOf(t) ==
    CASE t = "facebook"  -> facebookResult
      [] t = "instagram" -> instagramResult
      [] t = "tiktok"    -> tiktokResult

Endpoints(t) ==
    CASE t = "facebook"  -> {"facebook.videos"}
      [] t = "instagram" -> {"instagram.media", "instagram.media_publish"}
      [] t = "tiktok"    -> {"tiktok.upload"}

CallsTo(endpoints) == { i \in DOMAIN calls : calls[i].to \in endpoints }

SkipLine(t) ==
    CASE t = "facebook"  -> "Facebook publishing skipped."
      [] t = "instagram" -> "Instagram publishing skipped."
      [] t = "tiktok"    -> "TikTok publishing skipped."

\* The caller received a completed report / an abort
IsReport(r) == IsDefined(r) /\ "videoBase64" \in DOMAIN Get(r).body
IsAbort(r) == IsDefined(r) /\ "error" \in DOMAIN Get(r).body

ReportField(t) ==
    CASE t = "facebook"  -> Get(response).body.facebook
      [] t = "instagram" -> Get(response).body.instagram
      [] t = "tiktok"    -> Get(response).body.tiktok

TokenSupplied == Submitted /\ form.googleDriveToken # ""

StorageAttempted == CallsTo({"drive.create"}) # {}
StorageSucceeded == IsDefined(driveUpload) /\ Get(driveUpload).success
\* uploadToGoogleDrive returned a failed result
StorageFailed == IsDefined(driveUpload) /\ ~Get(driveUpload).success

\* maybePostToFacebook, the first step of the distribution stage, has started
DistributionReached == "facebook" \in evaluated \/ CallsTo({"facebook.videos"}) # {}

\* The call to an endpoint resolved with a 2xx status
Succeeded(to) ==
    \E i \in CallsTo({to}) :
        calls[i].outcome = "resolved" /\ calls[i].status >= 200 /\ calls[i].status <= 299

\* The call to an endpoint resolved with another status
Refused(to) ==
    \E i \in CallsTo({to}) :
        calls[i].outcome = "resolved" /\ ~(calls[i].status >= 200 /\ calls[i].status <= 299)

CarriedId(to) == \E i \in CallsTo({to}) : calls[i].text = BodyWithId

----------------------------------------------------------------------------
(* Properties *)

\* C1: whenever the storage stage returned a failed result (create refused,
\* create response without identifier, or permission grant refused), every
\* enabled link-dependent target gets the 'Missing public video URL'
\* rejection and no call goes to its endpoints.
C1_FailedStorageBlocksLinkTargets ==
    StorageFailed =>
        \A t \in LinkTargets :
            Enabled(t) =>
                /\ CallsTo(Endpoints(t)) = {}
                /\ t \in evaluated => ResultOf(t) = Some(MissingUrl)

\* C2: a run that reached the distribution stage ends with all three targets
\* evaluated and their outcomes in a report, whatever a target's call did.
C2_TargetFailureNeverAborts ==
    (pc = "done" /\ DistributionReached) =>
        /\ evaluated = Targets
        /\ IsReport(response)
        /\ \A t \in Targets : ReportField(t) = ResultOf(t)

\* C3: once the artifact exists, a storage upload that fails in any way
\* (refused, or a storage call throwing) still lets the run reach the
\* distribution stage and end with a report carrying the artifact and the
\* recorded storage failure.
C3_StorageFailureNeverAborts ==
    (pc = "done" /\ IsDefined(videoBuffer) /\ StorageAttempted /\ ~StorageSucceeded) =>
        /\ DistributionReached
        /\ IsReport(response)
        /\ Get(response).body.videoBase64 = Get(videoBuffer)
        /\ StorageFailed
        /\ "Google Drive upload failed." \in Range(Get(response).body.logs)

\* C4: in a completed run without a storage token, each enabled
\* link-dependent target has a result in the report with success = false and
\* status 400; the storage stage made no call, and its skip is a log line,
\* not a failure.
C4_NoTokenRejectsLinkTargets ==
    (IsReport(response) /\ ~TokenSupplied) =>
        /\ \A t \in LinkTargets :
               Enabled(t) =>
                   /\ IsDefined(ReportField(t))
                   /\ Get(ReportField(t)).success = FALSE
                   /\ Get(ReportField(t)).statusCode = 400
        /\ "Google Drive step skipped (no token provided)." \in Range(Get(response).body.logs)
        /\ "Google Drive upload failed." \notin Range(Get(response).body.logs)
        /\ ~StorageAttempted
        /\ driveUpload = Undefined

C4_Witness ==
    /\ IsReport(response)
    /\ ~TokenSupplied
    /\ Enabled("instagram")
    /\ Enabled("tiktok")
    /\ ~LacksConfiguration("instagram")

\* C5: the storage result is successful exactly when the create call
\* succeeded with an identifier and the permission call succeeded; when only
\* the permission call is refused, success is false and the identifier is
\* still reported.
C5_StorageSuccessIffBothCalls ==
    IsDefined(driveUpload) =>
        /\ Get(driveUpload).success <=>
               /\ Succeeded("drive.create")
               /\ CarriedId("drive.create")
               /\ Succeeded("drive.permissions")
        /\ (Succeeded("drive.create") /\ CarriedId("drive.create")
              /\ Refused("drive.permissions")) =>
               /\ Get(driveUpload).success = FALSE
               /\ Get(driveUpload).fileId = "id-1"

C5_Witness ==
    /\ IsDefined(driveUpload)
    /\ Succeeded("drive.create")
    /\ Refused("drive.permissions")
    /\ Get(driveUpload).fileId = "id-1"

\* C6: a public link is present, in the storage result and in the report,
\* only when the storage stage succeeded.
C6_LinkOnlyOnSuccess ==
    /\ IsDefined(driveUpload) =>
           (Get(driveUpload).webLink # "" => Get(driveUpload).success)
    /\ IsReport(response) =>
           (Get(response).body.googleDriveWebLink # "" => StorageSucceeded)

\* C7: no response carries a top-level error once the video artifact has
\* been read.
C7_ErrorOnlyBeforeArtifact ==
    IsAbort(response) => videoBuffer = Undefined

\* C8: a disabled target logs its skip line, receives no call and is absent
\* from the report; and a run with all three targets disabled whose artifact
\* was produced ends with a report carrying the artifact and no target.
C8_DisabledTargetsAbsent ==
    /\ \A t \in Targets :
           (Submitted /\ ~Enabled(t)) =>
               /\ CallsTo(Endpoints(t)) = {}
               /\ t \in evaluated =>
                      (ResultOf(t) = Undefined /\ SkipLine(t) \in Range(logs))
               /\ IsReport(response) => ReportField(t) = Undefined
    /\ (pc = "done" /\ IsDefined(videoBuffer) /\ \A t \in Targets : ~Enabled(t)) =>
           /\ IsReport(response)
           /\ Get(response).body.videoBase64 = Get(videoBuffer)
           /\ \A t \in Targets : ReportField(t) = Undefined

\* The bodies of the rejections a target produces without a network call
LocalErrors(t) ==
    CASE t = "facebook"  -> {"Missing page access token or page ID"}
      [] t = "instagram" -> {"Missing access token or Instagram user ID",
                             "Missing public video URL"}
      [] t = "tiktok"    -> {"Missing TikTok access token", "Missing public video URL"}

\* C9: an enabled target whose token or identifier is missing never receives
\* a call, and once evaluated its result is present with success = false,
\* status 400 and an error body; that result is the one reported.
C9_MissingConfigurationRejectedLocally ==
    \A t \in Targets :
        (Enabled(t) /\ LacksConfiguration(t)) =>
            /\ CallsTo(Endpoints(t)) = {}
            /\ t \in evaluated =>
                   /\ IsDefined(ResultOf(t))
                   /\ Get(ResultOf(t)).success = FALSE
                   /\ Get(ResultOf(t)).statusCode = 400
                   /\ Get(ResultOf(t)).body \in { [error |-> m] : m \in LocalErrors(t) }
            /\ IsReport(response) => ReportField(t) = ResultOf(t)

C9_Witness ==
    /\ IsReport(response)
    /\ StorageSucceeded
    /\ \A t \in Targets : Enabled(t) /\ LacksConfiguration(t)
    /\ Get(instagramResult).body = [error |-> "Missing access token or Instagram user ID"]

\* No entry of the form is a File whose key starts with "image_"
NoQualifyingImage ==
    \A i \in DOMAIN form.entries :
        ~(form.entries[i].isFile /\ StartsWithImage(form.entries[i].key))

\* C10: with an empty prompt or without a qualifying image field the run
\* does no work (no workspace, no frame, no encoder, no external call) and
\* ends with a 4xx error response.
C10_InvalidInputRejectedBeforeWork ==
    (Submitted /\ (StringValue(form.prompt) = "" \/ NoQualifyingImage)) =>
        /\ pc \in {"start", "finally", "done"}
        /\ tempRoot = Null
        /\ workspace = FALSE
        /\ framePaths = <<>>
        /\ calls = <<>>
        /\ logs = <<>>
        /\ pc = "done" =>
               /\ IsAbort(response)
               /\ Get(response).status >= 400
               /\ Get(response).status <= 499

C10_Witness ==
    /\ pc = "done"
    /\ Submitted
    /\ StringValue(form.prompt) # ""
    /\ form.entries # <<>>
    /\ NoQualifyingImage
    /\ Get(response).status = 400

----------------------------------------------------------------------------
(* Workspace, fatal stages, response shapes *)

\* C11 (as stated): no run ends with its temporary workspace still on disk.
C11_WorkspaceAlwaysRemoved ==
    pc = "done" => workspace = FALSE

\* C11 (amended): a workspace on disk is always known to the finally block;
\* every run that created one issues exactly one fs.rm of it as its last
\* external call before the response reaches the caller, and the workspace
\* survives the run only when that removal itself fails.
C11_CleanupAlwaysAttempted ==
    /\ workspace => tempRoot # Null
    /\ (pc = "done" /\ tempRoot = Null) => CallsTo({"fs.rm"}) = {}
    /\ (pc = "done" /\ tempRoot # Null) =>
           /\ CallsTo({"fs.rm"}) = {Len(calls)}
           /\ calls[Len(calls)].arg = tempRoot
           /\ workspace <=> calls[Len(calls)].outcome = "rejected"
    /\ pc # "done" => CallsTo({"fs.rm"}) = {}

C11_Witness ==
    /\ pc = "done"
    /\ IsAbort(response)
    /\ framePaths # <<>>
    /\ tempRoot # Null
    /\ workspace = FALSE

\* The messages of the exceptions of frame decoding and of encoding
StageFatal ==
    { "Input buffer contains unsupported image format",
      "ffmpeg exited with code 1",
      "ENOENT: no such file or directory" }

DecodeOrEncodeFailed ==
    \/ IsDefined(thrown) /\ Get(thrown) \in StageFatal
    \/ \E m \in StageFatal : ("Error: " \o m) \in Range(logs)
    \/ \E i \in CallsTo({"ffmpeg"}) : calls[i].outcome = "rejected"

NetworkEndpoints ==
    {"drive.create", "drive.permissions"} \cup UNION { Endpoints(t) : t \in Targets }

\* C12: once frame decoding or encoding has failed, the run is on its way
\* to an error response: no artifact exists, the storage stage and the
\* targets are never started, no storage or platform call is issued, and
\* the response carries the error message and no artifact.
C12_DecodeOrEncodeFailureTerminates ==
    DecodeOrEncodeFailed =>
        /\ pc \in {"catch", "finally", "done"}
        /\ videoBuffer = Undefined
        /\ CallsTo(NetworkEndpoints) = {}
        /\ driveUpload = Undefined
        /\ evaluated = {}
        /\ pc = "done" =>
               /\ IsAbort(response)
               /\ ~IsReport(response)
               /\ Get(response).body.error \in StageFatal
               /\ Get(response).status = 500

C12_Witness ==
    /\ pc = "done"
    /\ \E i \in CallsTo({"ffmpeg"}) : calls[i].outcome = "rejected"
    /\ IsAbort(response)

\* C13: every response is either a completed report (2xx status, the
\* artifact, no top-level error) or an abort (non-2xx status, exactly an
\* error message and the log lines appended so far, no artifact).
C13_ResponseIsReportOrAbort ==
    IsDefined(response) =>
        LET r == Get(response)
        IN \/ /\ IsReport(response)
              /\ ~IsAbort(response)
              /\ r.status >= 200 /\ r.status <= 299
              /\ IsDefined(videoBuffer)
              /\ r.body.videoBase64 = Get(videoBuffer)
              /\ r.body.logs = logs
           \/ /\ IsAbort(response)
              /\ ~IsReport(response)
              /\ ~(r.status >= 200 /\ r.status <= 299)
              /\ DOMAIN r.body = {"error", "logs"}
              /\ r.body.logs = logs

C13_Witness ==
    /\ IsAbort(response)
    /\ Get(response).status = 500
    /\ IsDefined(videoBuffer)
    /\ Len(Get(response).body.logs) > 4

\* The submitted fields that are images: files whose key starts with "image"
Qualifying ==
    { i \in DOMAIN form.entries :
          form.entries[i].isFile /\ StartsWithImage(form.entries[i].key) }

\* Number of image fields whose key comes before the key of field i
RankOf(i) ==
    Cardinality({ j \in Qualifying :
                      KeyRank(form.entries[j].key) < KeyRank(form.entries[i].key) })

PaddedFrameNames ==
    <<"frame-000.png", "frame-001.png", "frame-002.png", "frame-003.png",
      "frame-004.png">>

\* C14: whatever the arrival order of the image fields, the frame with file
\* index N (zero-padded) is made from the image whose key has rank N in
\* ascending key order, and no frame is made from anything else.
C14_FrameOrderFollowsKeys ==
    Submitted =>
        /\ Len(framePaths) <= Cardinality(Qualifying)
        /\ \A n \in DOMAIN framePaths :
              /\ framePaths[n].path = PaddedFrameNames[n]
              /\ \E i \in Qualifying :
                    /\ RankOf(i) = n - 1
                    /\ framePaths[n].data = form.entries[i].data
        /\ IsDefined(videoBuffer) => Len(framePaths) = Cardinality(Qualifying)

C14_Witness ==
    /\ Submitted
    /\ Len(form.entries) = 3
    /\ form.entries[1].key = "image_002"
    /\ form.entries[2].key = "image_000"
    /\ form.entries[3].key = "image_001"
    /\ Len(framePaths) = 3
    /\ framePaths[1].data = "A"
    /\ IsReport(response)

\* The duration the run has to use for a submitted text, in thousandths
EffectiveDuration(text) ==
    CASE text = "0.5" -> 500
      [] text = "0.6" -> 600
      [] text = "3"   -> 3000
      [] text = "6.4" -> 6400
      [] text = "10"  -> 10000
      [] text = "20"  -> 20000
      [] OTHER        -> 2000

\* C15: a frame duration given as 0, a negative number, a non-numeric text
\* or not at all makes the run use 2 seconds per frame and does not stop
\* it; a finite positive value is used as given.
C15_InvalidDurationDefaultsToTwo ==
    (Submitted /\ pc # "start") =>
        /\ frameDuration = EffectiveDuration(form.frameDuration)
        /\ (StringValue(form.prompt) # "" /\ Qualifying # {}) =>
               /\ logs # <<>>
               /\ ~(IsAbort(response) /\ Get(response).status = 400)

C15_Witness ==
    /\ Submitted
    /\ form.frameDuration = "-1"
    /\ frameDuration = 2000
    /\ frameRate = 5000
    /\ IsReport(response)

\* C16: for K >= 1 images and an effective duration D with 1/D at least
\* 0.1, the nominal duration K / rate of the encoder's input equals K x D
\* exactly; when 1/D is below 0.1 the rate is 0.1 (nominal duration 10 x K).
C16_NominalDurationExact ==
    (Submitted /\ frameRate # 0) =>
        LET K == Len(framePaths)
        IN IF 10 * 1000 >= frameDuration
           THEN K * frameRate * frameDuration = K * 10000 * 1000
           ELSE frameRate = 1000

\* Every endpoint the run can call, the encoder and the cleanup included
AllEndpoints == NetworkEndpoints \cup {"ffmpeg", "fs.rm"}

\* C17: in one run each external call (encoder, storage create, storage
\* permission, Facebook post, Instagram container, Instagram publish,
\* TikTok upload) is issued at most once, whatever its outcome.
C17_EachCallAtMostOnce ==
    \A e \in AllEndpoints : Cardinality(CallsTo({e})) <= 1

C17_Witness ==
    /\ pc = "done"
    /\ Refused("tiktok.upload")
    /\ Refused("facebook.videos")
    /\ Refused("instagram.media")
    /\ Cardinality(CallsTo({"tiktok.upload"})) = 1

\* C18: every run eventually ends with a response, also when the encoder
\* emits neither its end nor its error event.
C18_EveryRunEnds == <>IsDefined(response)

\* The container call came back with success and a creation identifier
ContainerGranted(i) ==
    /\ calls[i].to = "instagram.media"
    /\ calls[i].outcome = "resolved"
    /\ calls[i].status >= 200 /\ calls[i].status <= 299
    /\ calls[i].text = BodyWithId

\* C19: the Instagram publish call is issued only after the container call
\* returned success with a creation identifier, and carries that identifier;
\* when the container call fails or succeeds without an identifier there is
\* no publish call and the result is a failure, with the message 'Missing
\* Instagram creation ID.' in the latter case.
C19_InstagramPublishAfterContainer ==
    /\ \A j \in CallsTo({"instagram.media_publish"}) :
          \E i \in CallsTo({"instagram.media"}) :
              /\ i < j
              /\ ContainerGranted(i)
              /\ calls[j].arg = "id-1"
    /\ \A i \in CallsTo({"instagram.media"}) :
          (calls[i].outcome # "pending" /\ ~ContainerGranted(i)) =>
              /\ CallsTo({"instagram.media_publish"}) = {}
              /\ calls[i].outcome = "resolved" =>
                     /\ IsDefined(instagramResult)
                     /\ Get(instagramResult).success = FALSE
                     /\ Get(instagramResult).statusCode = calls[i].status
                     /\ Get(instagramResult).message =
                            IF calls[i].status >= 200 /\ calls[i].status <= 299
                            THEN "Missing Instagram creation ID."
                            ELSE ""

C19_Witness ==
    /\ pc = "done"
    /\ Succeeded("instagram.media")
    /\ ~CarriedId("instagram.media")
    /\ CallsTo({"instagram.media_publish"}) = {}
    /\ IsReport(response)
    /\ Get(instagramResult).message = "Missing Instagram creation ID."
    /\ Get(instagramResult).statusCode = 200

\* Index of the last call a target issued
LastCall(t) ==
    CHOOSE i \in CallsTo(Endpoints(t)) : \A j \in CallsTo(Endpoints(t)) : j <= i

CallOk(i) ==
    calls[i].outcome = "resolved" /\ calls[i].status >= 200 /\ calls[i].status <= 299

\* The results that were produced after a network call to their target
RemoteResults ==
    { t \in Targets : IsDefined(ResultOf(t)) /\ CallsTo(Endpoints(t)) # {} }

\* C20 as stated: every result produced after a network call has the
\* ok-status of the target's last call as its success flag and that call's
\* status as its status code.
C20_SuccessIsOkOfLastCall ==
    \A t \in RemoteResults :
        /\ Get(ResultOf(t)).success = CallOk(LastCall(t))
        /\ Get(ResultOf(t)).statusCode = calls[LastCall(t)].status

\* C20: the success flag is the ok-status of the target's last call and the
\* status code is that call's, except for an Instagram container response
\* that is ok but carries no creation identifier: that result is a failure
\* with the container's status code and the message 'Missing Instagram
\* creation ID.'.
C20_SuccessIsOkOfLastCallOrMissingId ==
    \A t \in RemoteResults :
        LET last == LastCall(t)
            result == Get(ResultOf(t))
        IN /\ result.statusCode = calls[last].status
           /\ IF calls[last].to = "instagram.media" /\ CallOk(last)
              THEN /\ calls[last].text # BodyWithId
                   /\ result.success = FALSE
                   /\ result.message = "Missing Instagram creation ID."
              ELSE result.success = CallOk(last)

C20_Witness ==
    /\ pc = "done"
    /\ "instagram" \in RemoteResults
    /\ Succeeded("instagram.media")
    /\ Refused("instagram.media_publish")
    /\ Get(instagramResult).success = FALSE
    /\ "tiktok" \in RemoteResults
    /\ Get(tiktokResult).success = TRUE
    /\ \E i \in CallsTo({"tiktok.upload"}) : calls[i].text = BodyNotJson

\* The stage an endpoint belongs to: encoding, storage, distribution, cleanup
StageOf(to) ==
    CASE to = "ffmpeg" -> 1
      [] to \in {"drive.create", "drive.permissions"} -> 2
      [] to = "fs.rm" -> 4
      [] OTHER -> 3

\* The storage stage was skipped / has returned its result to the handler
StorageSkipped ==
    /\ ~TokenSupplied
    /\ CallsTo({"drive.create", "drive.permissions"}) = {}
    /\ "Google Drive step skipped (no token provided)." \in Range(logs)

StorageReturned ==
    /\ IsDefined(driveUpload)
    /\ \A i \in CallsTo({"drive.create", "drive.permissions"}) : calls[i].outcome = "resolved"

\* Some target has been evaluated or called
TargetStarted == evaluated # {} \/ CallsTo(NetworkEndpoints \ {"drive.create", "drive.permissions"}) # {}

\* C21: the stages run one after the other: the encoder is invoked only
\* after every frame was normalised, the storage upload starts only after
\* the encoder finished and the artifact was read, and no target is
\* evaluated or called before the storage stage was skipped or returned.
C21_StagesSequential ==
    /\ CallsTo({"ffmpeg"}) # {} =>
           /\ Len(framePaths) = Cardinality(Qualifying)
           /\ Len(framePaths) >= 1
    /\ IsDefined(videoBuffer) =>
           \E i \in CallsTo({"ffmpeg"}) : calls[i].outcome = "resolved"
    /\ StorageAttempted => IsDefined(videoBuffer)
    /\ TargetStarted =>
           /\ IsDefined(videoBuffer)
           /\ StorageSkipped \/ StorageReturned
    /\ \A i, j \in DOMAIN calls :
           i < j => /\ StageOf(calls[i].to) <= StageOf(calls[j].to)
                    /\ calls[i].outcome # "pending"

C21_Witness ==
    /\ IsReport(response)
    /\ Len(framePaths) = 2
    /\ StorageReturned
    /\ \A t \in Targets : CallsTo(Endpoints(t)) # {}

\* The log line with which the evaluation of a target begins
OpeningLines(t) ==
    CASE t = "facebook" ->
           { "Facebook publishing skipped.",
             "Facebook configuration incomplete (token and page ID required).",
             "Posting video to Facebook Page." }
      [] t = "instagram" ->
           { "Instagram publishing skipped.",
             "Instagram requires a public video URL. Google Drive upload must succeed first.",
             "Instagram configuration incomplete (access token and IG user ID required).",
             "Creating Instagram media container." }
      [] t = "tiktok" ->
           { "TikTok publishing skipped.",
             "TikTok requires a public video URL. Google Drive upload must succeed first.",
             "TikTok configuration incomplete (access token required).",
             "Calling TikTok upload API." }

\* Every log line a target can contribute
LinesOf(t) ==
    OpeningLines(t) \cup
    CASE t = "facebook" ->
           { "Facebook publishing succeeded.", "Facebook publishing failed." }
      [] t = "instagram" ->
           { "Instagram container creation failed.",
             "Instagram container response missing creation ID.",
             "Publishing Instagram media container.",
             "Instagram publishing succeeded.", "Instagram publishing failed." }
      [] t = "tiktok" ->
           { "TikTok upload request accepted.", "TikTok upload failed." }

Positions(lines) == { i \in DOMAIN logs : logs[i] \in lines }

\* C22: in a completed run each of the three targets was evaluated exactly
\* once, in the order Facebook, Instagram, TikTok, each left at least one
\* log line in that order, and the three outcomes were collected before
\* 'Workflow completed.' was appended and the response returned.
C22_AllTargetsEvaluatedInOrder ==
    IsReport(response) =>
        /\ evaluated = Targets
        /\ \A t \in Targets :
              /\ Cardinality(Positions(OpeningLines(t))) = 1
              /\ \A e \in Endpoints(t) : Cardinality(CallsTo({e})) <= 1
              /\ ReportField(t) = ResultOf(t)
        /\ \A i \in Positions(LinesOf("facebook")), j \in Positions(LinesOf("instagram")),
              k \in Positions(LinesOf("tiktok")) : i < j /\ j < k /\ k < Len(logs)
        /\ \A i \in CallsTo(Endpoints("facebook")), j \in CallsTo(Endpoints("instagram")),
              k \in CallsTo(Endpoints("tiktok")) : i < j /\ j < k
        /\ Positions({"Workflow completed."}) = {Len(logs)}
        /\ Get(response).body.logs = logs

C22_Witness ==
    /\ IsReport(response)
    /\ Refused("facebook.videos")
    /\ IsDefined(instagramResult)
    /\ CallsTo(Endpoints("instagram")) = {}
    /\ Succeeded("tiktok.upload")

\* The Facebook result as the request's Facebook fields and the response of
\* the Facebook endpoint alone determine it
FacebookResultFrom(call) ==
    [success |-> call.status >= 200 /\ call.status <= 299,
     statusCode |-> call.status,
     body |-> SafeJson(call),
     message |-> ""]

\* C23: Facebook does not depend on the storage stage: once the artifact
\* exists, a Facebook that is enabled with token and page id is attempted
\* whether the storage stage was skipped, failed or succeeded, and its
\* result is determined by the response of the Facebook endpoint alone.
C23_FacebookIndependentOfStorage ==
    (/\ pc = "done"
     /\ IsDefined(videoBuffer)
     /\ Enabled("facebook")
     /\ ~LacksConfiguration("facebook")) =>
        /\ CallsTo({"facebook.videos"}) # {}
        /\ \A i \in CallsTo({"facebook.videos"}) :
              calls[i].outcome = "resolved" =>
                  facebookResult = Some(FacebookResultFrom(calls[i]))

\* A step keeps every line of the log in place and at most appends lines
LogOnlyGrows ==
    /\ Len(logs') >= Len(logs)
    /\ SubSeq(logs', 1, Len(logs)) = logs

\* What the caller receives is the log as appended, with the closing line
\* of the run last
LogReturnedVerbatim ==
    IsDefined(response) =>
        /\ Get(response).body.logs = logs
        /\ IsReport(response) =>
               /\ logs # <<>>
               /\ logs[Len(logs)] = "Workflow completed."
        /\ (IsAbort(response) /\ Get(response).status = 500) =>
               /\ logs # <<>>
               /\ logs[Len(logs)] = "Error: " \o Get(response).body.error

\* C24: the activity log is append-only and ordered: no step removes,
\* changes or reorders a line; the caller receives exactly the lines
\* appended; a completed run's last line is 'Workflow completed.' and the
\* last line of an abort after an exception is the error line.
C24_LogAppendOnly == [][LogOnlyGrows]_vars /\ []LogReturnedVerbatim

C24_Witness ==
    /\ IsAbort(response)
    /\ Get(response).status = 500
    /\ Len(logs) = 5
    /\ logs[4] = "Video render complete."
    /\ logs[5] = "Error: ENOENT: no such file or directory"

\* The error body of the missing-configuration rejection of a target
ConfigurationError(t) ==
    CASE t = "facebook"  -> "Missing page access token or page ID"
      [] t = "instagram" -> "Missing access token or Instagram user ID"
      [] t = "tiktok"    -> "Missing TikTok access token"

\* C25: the gates of a target are tested in the order disabled, missing
\* configuration, missing public link: an enabled link-dependent target
\* that lacks its token or identifier and has no public link is rejected
\* for its configuration (status 400, configuration error body), not for
\* the missing public URL.
C25_ConfigurationTestedBeforeLink ==
    \A t \in LinkTargets :
        (/\ t \in evaluated
         /\ Enabled(t)
         /\ LacksConfiguration(t)
         /\ ~HasWebLink(driveUpload)) =>
            ResultOf(t) = Some(LocalRejection(ConfigurationError(t)))

\* The storage create call came back with success and a file identifier
CreateGranted(i) ==
    /\ calls[i].to = "drive.create"
    /\ calls[i].outcome = "resolved"
    /\ calls[i].status >= 200 /\ calls[i].status <= 299
    /\ calls[i].text = BodyWithId

\* The storage create call came back with success but without identifier
CreateWithoutId(i) ==
    /\ calls[i].to = "drive.create"
    /\ calls[i].outcome = "resolved"
    /\ calls[i].status >= 200 /\ calls[i].status <= 299
    /\ calls[i].text # BodyWithId

TargetCallRejected ==
    \E k \in CallsTo(UNION { Endpoints(t) : t \in Targets }) : calls[k].outcome = "rejected"

\* C26: the permission call is issued only after the create call succeeded
\* with an identifier, and names that identifier; a create call that
\* succeeds without identifier makes the stage return success = false with
\* a descriptive error in the body, without exception, without permission
\* call, without file identifier and without public link.
C26_PermissionAfterCreateWithId ==
    /\ \A j \in CallsTo({"drive.permissions"}) :
          \E i \in CallsTo({"drive.create"}) :
              i < j /\ CreateGranted(i) /\ calls[j].arg = "id-1"
    /\ \A i \in CallsTo({"drive.create"}) :
          CreateWithoutId(i) =>
              /\ CallsTo({"drive.permissions"}) = {}
              /\ IsDefined(driveUpload)
              /\ Get(driveUpload).success = FALSE
              /\ Get(driveUpload).statusCode = calls[i].status
              /\ Get(driveUpload).body.error = "Upload response missing file identifier."
              /\ Get(driveUpload).fileId = ""
              /\ Get(driveUpload).webLink = ""
              /\ "Google Drive upload failed." \in Range(logs)
              /\ ~TargetCallRejected =>
                     /\ thrown = Undefined
                     /\ ~IsAbort(pending)
                     /\ ~IsAbort(response)

C26_Witness ==
    /\ IsReport(response)
    /\ \E i \in CallsTo({"drive.create"}) : CreateWithoutId(i) /\ calls[i].text = BodyNoId
    /\ Get(response).body.googleDriveWebLink = ""
    /\ CallsTo({"drive.permissions"}) = {}

\* C27: a call to the endpoint of a link-dependent target (Instagram
\* container or publish, TikTok upload) is issued only after the storage
\* create call of the same run succeeded with a file identifier, and the
\* link it sends is the one built from that identifier.
C27_LinkCallsFollowCreate ==
    \A j \in CallsTo(UNION { Endpoints(t) : t \in LinkTargets }) :
        /\ \E i \in CallsTo({"drive.create"}) : i < j /\ CreateGranted(i)
        /\ calls[j].to \in {"instagram.media", "tiktok.upload"} =>
               calls[j].arg = "https://drive.google.com/uc?export=download&id=id-1"

C27_Witness ==
    /\ pc = "done"
    /\ Refused("drive.permissions")
    /\ CallsTo({"instagram.media_publish"}) # {}
    /\ CallsTo({"tiktok.upload"}) # {}

====
